---- MODULE Spec2Model ----
(***************************************************************************)
(* Model of the sinkingyachts Client (client.go), its helpers and the     *)
(* RawClient transport (both in helper.go): the cache of phishing          *)
(* domains, FullSync / Update, the live feed session and the update        *)
(* notification channel.                                                   *)
(***************************************************************************)
EXTENDS Integers, Sequences, FiniteSets, TLC

\* ---------------------------------------------------------------- bounds
MaxTime == 2
MaxList == 2
MaxMods == 2
MaxChans == 2
MaxStream == 2
MaxFill == 10
MaxShort == 1

\* ------------------------------------------------------ program constants
QueueCap == 8
NotifyCap == 2
AutoCap == 2

Nil == "nil"
None == "none"
Dom == {"a", "b"}

\* the nil map, what Close leaves in Client.domains
NilMap == {"<nil map>"}

SeqsUpTo(S, n) == UNION {[1..k -> S] : k \in 0..n}

Elems(s) == {s[i] : i \in DOMAIN s}

\* ------------------------------------------------------------------ types
\* modEntry: the api representation of a domain update
ModEntries ==
    [Type : {"add", "delete"}, Domains : {<<d>> : d \in Dom}]
    \cup {[Type |-> "add", Domains |-> <<>>], [Type |-> "other", Domains |-> <<>>]}

\* DomainUpdate: Add says adding or removing, Domains the batch
DomainUpdate ==
    [Add : BOOLEAN, Domains : {<<d>> : d \in Dom}] \cup {[Add |-> TRUE, Domains |-> <<>>]}

\* DomainUpdate.UnmarshalJSON: "add" and "delete" are the only accepted types
UnmarshalDomainUpdate(me) ==
    IF me.Type = "add" THEN [mod |-> [Add |-> TRUE, Domains |-> me.Domains], err |-> Nil]
    ELSE IF me.Type = "delete"
         THEN [mod |-> [Add |-> FALSE, Domains |-> me.Domains], err |-> Nil]
         ELSE [mod |-> [Add |-> FALSE, Domains |-> <<>>], err |-> "decode"]

\* ------------------------------------------------------------- transport
\* what the http round trip of doReq can produce for /v2/all/
AllResponses(maxList) ==
    {[kind |-> "connerr", status |-> 0, valid |-> FALSE, list |-> <<>>]}
    \cup {[kind |-> "http", status |-> 500, valid |-> TRUE, list |-> <<>>]}
    \cup {[kind |-> "http", status |-> 200, valid |-> FALSE, list |-> <<>>]}
    \cup [kind : {"http"}, status : {200}, valid : {TRUE},
          list : SeqsUpTo(Dom, maxList)]

\* RawClient.All
All(resp) ==
    IF resp.kind = "connerr" THEN [ds |-> <<>>, err |-> "conn"]
    ELSE IF resp.status # 200 THEN [ds |-> <<>>, err |-> "status"]
    ELSE IF ~resp.valid THEN [ds |-> <<>>, err |-> "decode"]
    ELSE [ds |-> resp.list, err |-> Nil]

\* what the http round trip of doReq can produce for /v2/recent/<seconds>
RecentResponses(maxMods) ==
    {[kind |-> "connerr", status |-> 0, valid |-> FALSE, list |-> <<>>]}
    \cup {[kind |-> "http", status |-> 500, valid |-> TRUE, list |-> <<>>]}
    \cup {[kind |-> "http", status |-> 200, valid |-> FALSE, list |-> <<>>]}
    \cup [kind : {"http"}, status : {200}, valid : {TRUE},
          list : SeqsUpTo(ModEntries, maxMods)]

RECURSIVE DecodeMods(_)
\* json decoding of []DomainUpdate: stops at the first entry that fails
DecodeMods(entries) ==
    IF entries = <<>> THEN [mods |-> <<>>, err |-> Nil]
    ELSE LET h == UnmarshalDomainUpdate(Head(entries))
             r == DecodeMods(Tail(entries))
         IN  IF h.err # Nil THEN [mods |-> <<>>, err |-> h.err]
             ELSE IF r.err # Nil THEN [mods |-> <<h.mod>>, err |-> r.err]
             ELSE [mods |-> <<h.mod>> \o r.mods, err |-> Nil]

\* RawClient.Recent
Recent(resp) ==
    IF resp.kind = "connerr" THEN [mods |-> <<>>, err |-> "conn"]
    ELSE IF resp.status # 200 THEN [mods |-> <<>>, err |-> "status"]
    ELSE IF ~resp.valid THEN [mods |-> <<>>, err |-> "decode"]
    ELSE DecodeMods(resp.list)

\* ------------------------------------------------------------------ state
VARIABLES
    domains,      \* Client.domains: a set of domains, or NilMap
    lastUpdated,  \* Client.lastUpdated, in seconds; 0 is the zero time
    m,            \* Client.m: None, or the task that holds the mutex
    streaming,    \* Client.streaming
    cancelFunc,   \* Client.cancelFunc: Nil, or the session whose context it cancels
    updateChan,   \* Client.updateChan: 0 for nil, or an index into chans
    chans,        \* every channel UpdateChannel made: [buf, closed]
    now,          \* the clock read by time.Now
    crashed,      \* a panic has ended the process
    fpc,          \* FullSync caller: "idle" or "all" (waiting for RawClient.All)
    upc,          \* Update caller: "idle", "after" (waiting for RawClient.After),
                  \* "ret" (After has returned)
    umods,        \* what RawClient.After returned to Update: mods and err
    ev,           \* the last operation that ended: its name, whether its task held
                  \* the mutex at every access it made to the fields above
                  \* (guarded), and what it returned
    lpc,          \* ListenForUpdates caller: "idle", "dial", "read", "send", "end"
    lret,         \* what its call returned, or is about to return
    lcause,       \* what made RawClient.Feed return
    ctxDone,      \* the ctx given to ListenForUpdates is cancelled
    sessDone,     \* the context made by context.WithCancel is cancelled by cancelFunc
    hand,         \* the mod wsjson.Read gave to Feed, not yet sent on modFeed
    modChan,      \* the buffered channel of ListenForUpdates
    mclosed,      \* modChan is closed
    dpc,          \* the goroutine of ListenForUpdates: "off", "select", "apply"
    dhand,        \* the mod that goroutine received, not yet applied
    recvd,        \* ids of the records wsjson.Read returned in this session, in order
    applied,      \* ids of the records this session applied to the cache, in order
    fed,          \* how many records the server has sent so far
    sub,          \* the tasks that call UpdateChannel or run SaveOnChange: where each
                  \* is, and the channel it was given
    file,         \* the writer given to WriteCacheInto and the call that writes to it
    auto,         \* the task that runs AutoSync: its arguments, where it is,
                  \* what it returned
    pin,          \* the argument given to a function called on its own
    pout,         \* what that function returned
    srv           \* the server: how many feed records it sends at most (limit) and
                  \* which (mods), how long its /all lists and saved lists are at
                  \* most (maxList), how long its /recent lists (maxMods)

cacheVars == <<domains, lastUpdated, m, streaming, cancelFunc, updateChan, chans,
               now, crashed, fpc, upc, umods, ev>>

sessVars == <<lpc, lret, lcause, ctxDone, sessDone, hand, modChan, mclosed, dpc,
              dhand, recvd, applied, fed, srv>>

vars == <<domains, lastUpdated, m, streaming, cancelFunc, updateChan, chans,
          now, crashed, fpc, upc, umods, ev, lpc, lret, lcause, ctxDone, sessDone, hand,
          modChan, mclosed, dpc, dhand, recvd, applied, fed, srv,
          sub, file, auto, pin, pout>>

auxVars == <<sub, file, auto, pin, pout>>

Listeners == {"L1", "L2"}

\* the tasks that subscribe to the update channel
Subs == {"S1", "S2"}

\* the session that AutoSync starts
AutoSession == "AS"

\* every caller of listenForUpdates
Sessions == Listeners \cup {AutoSession}

\* AutoSync has not been called: its arguments realtime, recentInterval > 0 and
\* fullSyncInterval > 0, where it is (pc), what it returned (ret), where its
\* goroutine is (gpc), what that is about to send on stream (gret), and the mod
\* it took from modChan (hand)
NoAuto ==
    [pc |-> "off", realtime |-> FALSE, recent |-> FALSE, full |-> FALSE,
     ret |-> None, gpc |-> "off", gret |-> None, hand |-> <<>>]

Event(op, guarded, ret) == [op |-> op, guarded |-> guarded, ret |-> ret]

NoMods == [mods |-> <<>>, err |-> Nil]

\* New: an empty cache, nothing streaming, no update channel
InitCache ==
    /\ domains = {}
    /\ lastUpdated = 0
    /\ m = None
    /\ streaming = FALSE
    /\ cancelFunc = Nil
    /\ updateChan = 0
    /\ chans = <<>>
    /\ now = 1
    /\ crashed = FALSE
    /\ fpc = "idle"
    /\ upc = "idle"
    /\ umods = NoMods
    /\ ev = Event("New", TRUE, Nil)

\* ---------------------------------------------------------------- helpers
\* sendUpdate: a non-blocking send on updateChan when it is set
\* (a send on a closed channel panics)
SendPanics(uc, cs) == uc # 0 /\ cs[uc].closed

\* a fault: the send does not look at the room left in the channel
sendUpdate_unbounded(uc, cs) ==
    IF uc = 0 THEN cs ELSE [cs EXCEPT ![uc].buf = @ + 1]

sendUpdate(uc, cs) ==
    IF uc = 0 THEN cs
    ELSE IF cs[uc].buf < NotifyCap
         THEN [cs EXCEPT ![uc].buf = @ + 1]
         ELSE cs

\* applyMod: insert or delete every domain of the batch
\* (an insert into the nil map panics, a delete from it does nothing)
ModPanics(ds, mod) == ds = NilMap /\ mod.Add /\ Len(mod.Domains) > 0

RECURSIVE applyDomains(_, _, _)
applyDomains(ds, add, list) ==
    IF list = <<>> THEN ds
    ELSE applyDomains(IF add THEN ds \cup {Head(list)} ELSE ds \ {Head(list)},
                      add, Tail(list))

\* a fault: an adding batch replaces the membership by its own domains
applyMod_replaces(ds, mod) ==
    IF ds = NilMap THEN NilMap
    ELSE IF mod.Add THEN Elems(mod.Domains) ELSE applyDomains(ds, FALSE, mod.Domains)

applyMod(ds, mod) ==
    IF ds = NilMap THEN NilMap ELSE applyDomains(ds, mod.Add, mod.Domains)

RECURSIVE applyMods_reversed(_, _)
\* a fault: the mods are applied last to first
applyMods_reversed(ds, mods) ==
    IF mods = <<>> THEN ds
    ELSE applyMod(applyMods_reversed(ds, Tail(mods)), Head(mods))

RECURSIVE applyMods(_, _)
\* the loop of Update over the returned mods, first to last
applyMods(ds, mods) ==
    IF mods = <<>> THEN ds
    ELSE applyMods(applyMod(ds, Head(mods)), Tail(mods))

RECURSIVE ModsPanic(_, _)
ModsPanic(ds, mods) ==
    IF mods = <<>> THEN FALSE
    ELSE ModPanics(ds, Head(mods)) \/ ModsPanic(applyMod(ds, Head(mods)), Tail(mods))

\* a fault: the notification is sent whatever Update received
notifyAfter_always(mods, uc, cs) == sendUpdate(uc, cs)

\* Client.Update, lines 102-104: the notification is sent when mods is not empty
notifyAfter(mods, uc, cs) == IF Len(mods) > 0 THEN sendUpdate(uc, cs) ELSE cs

RECURSIVE toMap_merged(_, _)
\* a fault: the new map starts from the cache's domains, not from an empty map
toMap_merged(dMap, list) ==
    IF list = <<>> THEN dMap \cup (domains \ NilMap)
    ELSE toMap_merged(dMap \cup {Head(list)}, Tail(list))

RECURSIVE toMap(_, _)
\* the loop that fills dMap from a slice of domains
toMap(dMap, list) ==
    IF list = <<>> THEN dMap ELSE toMap(dMap \cup {Head(list)}, Tail(list))

\* ------------------------------------------------------------- operations
\* time passes
Tick ==
    /\ ~crashed
    /\ now < MaxTime
    /\ now' = now + 1
    /\ UNCHANGED <<sessVars, domains, lastUpdated, m, streaming, cancelFunc, updateChan,
                   chans, crashed, fpc, upc, umods, ev>>
    /\ UNCHANGED auxVars

\* Client.Check: a membership test under the mutex
Check(d) ==
    /\ ~crashed
    /\ m = None
    /\ ev' = Event("Check", TRUE, IF d \in domains THEN "true" ELSE "false")
    /\ UNCHANGED <<sessVars, domains, lastUpdated, m, streaming, cancelFunc, updateChan,
                   chans, now, crashed, fpc, upc, umods>>
    /\ UNCHANGED auxVars

\* Client.FullSync, line 74: the call of RawClient.All, made without the mutex
FullSyncCall ==
    /\ ~crashed
    /\ fpc = "idle"
    /\ fpc' = "all"
    /\ UNCHANGED <<sessVars, ev, domains, lastUpdated, m, streaming, cancelFunc, updateChan,
                   chans, now, crashed, upc, umods>>
    /\ UNCHANGED auxVars

\* a fault: lastUpdated is written before the error of RawClient.All is looked at
FullSyncErr_stamped(resp) ==
    /\ All(resp).err # Nil
    /\ fpc' = "idle"
    /\ lastUpdated' = now
    /\ ev' = Event("FullSync", TRUE, All(resp).err)
    /\ UNCHANGED <<sessVars, domains, m, streaming, cancelFunc, updateChan,
                   chans, now, crashed, upc, umods>>

\* Client.FullSync, lines 75-77: RawClient.All failed
FullSyncErr(resp) ==
    /\ All(resp).err # Nil
    /\ fpc' = "idle"
    /\ ev' = Event("FullSync", TRUE, All(resp).err)
    /\ UNCHANGED <<sessVars, domains, lastUpdated, m, streaming, cancelFunc, updateChan,
                   chans, now, crashed, upc, umods>>

\* a fault: lastUpdated is left at the zero time
FullSyncApply_zeroTime(resp) ==
    /\ All(resp).err = Nil
    /\ m = None
    /\ lastUpdated' = 0
    /\ domains' = toMap({}, All(resp).ds)
    /\ IF SendPanics(updateChan, chans)
       THEN crashed' = TRUE /\ chans' = chans
       ELSE crashed' = crashed /\ chans' = sendUpdate(updateChan, chans)
    /\ fpc' = "idle"
    /\ ev' = Event("FullSync", TRUE, Nil)
    /\ UNCHANGED <<sessVars, m, streaming, cancelFunc, updateChan, now, upc, umods>>

\* Client.FullSync, lines 78-87: the cache is replaced under the mutex
FullSyncApply(resp) ==
    /\ All(resp).err = Nil
    /\ m = None
    /\ lastUpdated' = now
    /\ domains' = toMap({}, All(resp).ds)
    /\ IF SendPanics(updateChan, chans)
       THEN crashed' = TRUE /\ chans' = chans
       ELSE crashed' = crashed /\ chans' = sendUpdate(updateChan, chans)
    /\ fpc' = "idle"
    /\ ev' = Event("FullSync", TRUE, Nil)
    /\ UNCHANGED <<sessVars, m, streaming, cancelFunc, updateChan, now, upc, umods>>

FullSyncReturn ==
    /\ ~crashed
    /\ fpc = "all"
    /\ \E resp \in AllResponses(srv.maxList) : FullSyncErr(resp) \/ FullSyncApply(resp)
    /\ UNCHANGED auxVars

\* Client.Update, lines 92-94: the mutex is taken, then RawClient.After is called
UpdateCall ==
    /\ ~crashed
    /\ upc = "idle"
    /\ m = None
    /\ m' = "up"
    /\ upc' = "after"
    /\ UNCHANGED <<sessVars, ev, domains, lastUpdated, streaming, cancelFunc, updateChan, chans,
                   now, crashed, fpc, umods>>
    /\ UNCHANGED auxVars

\* Client.Update, line 94: RawClient.After returns, the mutex still held
UpdateAfter ==
    /\ ~crashed
    /\ upc = "after"
    /\ \E resp \in RecentResponses(srv.maxMods) : umods' = Recent(resp)
    /\ upc' = "ret"
    /\ UNCHANGED <<sessVars, domains, lastUpdated, m, streaming, cancelFunc,
                   updateChan, chans, now, crashed, fpc, ev>>
    /\ UNCHANGED auxVars

\* Client.Update, lines 95-97: RawClient.After failed; the deferred Unlock runs
UpdateErr ==
    /\ umods.err # Nil
    /\ m' = None
    /\ upc' = "idle"
    /\ umods' = NoMods
    /\ ev' = Event("Update", m = "up", umods.err)
    /\ UNCHANGED <<sessVars, domains, lastUpdated, streaming, cancelFunc, updateChan,
                   chans, now, crashed, fpc>>

\* Client.Update, lines 98-105: the mods are applied in order, then one notification
UpdateApply ==
    /\ umods.err = Nil
    /\ lastUpdated' = now
    /\ IF ModsPanic(domains, umods.mods)
       THEN /\ crashed' = TRUE
            /\ UNCHANGED <<domains, chans>>
            /\ ev' = Event("Update", m = "up", "panic")
       ELSE /\ domains' = applyMods(domains, umods.mods)
            /\ IF Len(umods.mods) > 0 /\ SendPanics(updateChan, chans)
               THEN crashed' = TRUE /\ chans' = chans
               ELSE /\ crashed' = crashed
                    /\ chans' = notifyAfter(umods.mods, updateChan, chans)
            /\ ev' = Event("Update", m = "up", Nil)
    /\ m' = None
    /\ upc' = "idle"
    /\ umods' = NoMods
    /\ UNCHANGED <<sessVars, streaming, cancelFunc, updateChan, now, fpc>>

UpdateReturn ==
    /\ ~crashed
    /\ upc = "ret"
    /\ UpdateErr \/ UpdateApply
    /\ UNCHANGED auxVars

\* a fault: the previous channel is left open
UpdateChannel_keepsOld ==
    /\ ~crashed
    /\ Len(chans) < MaxChans
    /\ chans' = Append(chans, [buf |-> 0, closed |-> FALSE])
    /\ updateChan' = Len(chans) + 1
    /\ ev' = Event("UpdateChannel", FALSE, Nil)
    /\ UNCHANGED <<sessVars, domains, lastUpdated, m, streaming, cancelFunc, now, crashed,
                   fpc, upc, umods>>
    /\ UNCHANGED auxVars

\* Client.UpdateChannel: closes the previous channel and makes a new one,
\* without taking the mutex
UpdateChannel ==
    /\ ~crashed
    /\ Len(chans) < MaxChans
    /\ chans' = Append(IF updateChan # 0
                       THEN [chans EXCEPT ![updateChan].closed = TRUE]
                       ELSE chans,
                       [buf |-> 0, closed |-> FALSE])
    /\ updateChan' = Len(chans) + 1
    /\ ev' = Event("UpdateChannel", FALSE, Nil)
    /\ UNCHANGED <<sessVars, domains, lastUpdated, m, streaming, cancelFunc, now, crashed,
                   fpc, upc, umods>>
    /\ UNCHANGED auxVars

\* the on disk save format, as ReadCacheFrom and UnmarshalJSON are given it:
\* bytes that json.Unmarshal rejects, or a save{LastUpdated, Domains}
SaveData(maxList) ==
    {[valid |-> FALSE, LastUpdated |-> 0, Domains |-> <<>>]}
    \cup [valid : {TRUE}, LastUpdated : 0..MaxTime, Domains : SeqsUpTo(Dom, maxList)]

\* ReadCacheFrom: the data is decoded into a fresh Client, then copied under the mutex
ReadCacheFrom(data) ==
    /\ ~crashed
    /\ IF ~data.valid
       THEN /\ ev' = Event("ReadCacheFrom", TRUE, "decode")
            /\ UNCHANGED <<lastUpdated, domains>>
       ELSE /\ m = None
            /\ lastUpdated' = data.LastUpdated
            /\ domains' = toMap({}, data.Domains)
            /\ ev' = Event("ReadCacheFrom", TRUE, Nil)
    /\ UNCHANGED <<sessVars, m, streaming, cancelFunc, updateChan, chans, now,
                   crashed, fpc, upc, umods>>
    /\ UNCHANGED auxVars

\* Client.UnmarshalJSON: the same assignments, made without taking the mutex
UnmarshalJSON(data) ==
    /\ ~crashed
    /\ IF ~data.valid
       THEN /\ ev' = Event("UnmarshalJSON", TRUE, "decode")
            /\ UNCHANGED <<lastUpdated, domains>>
       ELSE /\ lastUpdated' = data.LastUpdated
            /\ domains' = toMap({}, data.Domains)
            /\ ev' = Event("UnmarshalJSON", FALSE, Nil)
    /\ UNCHANGED <<sessVars, m, streaming, cancelFunc, updateChan, chans, now,
                   crashed, fpc, upc, umods>>
    /\ UNCHANGED auxVars

\* Client.Close: cancels the session, releases the map, closes the update channel
\* (closing a nil channel panics, after the lines before it have run)
Close ==
    /\ ~crashed
    /\ m = None
    /\ sessDone' = IF cancelFunc # Nil
                   THEN [sessDone EXCEPT ![cancelFunc] = TRUE]
                   ELSE sessDone
    /\ domains' = NilMap
    /\ IF updateChan = 0
       THEN /\ crashed' = TRUE
            /\ UNCHANGED <<chans, updateChan>>
            /\ ev' = Event("Close", TRUE, "panic")
       ELSE /\ chans' = [chans EXCEPT ![updateChan].closed = TRUE]
            /\ updateChan' = 0
            /\ crashed' = crashed
            /\ ev' = Event("Close", TRUE, Nil)
    /\ UNCHANGED <<lastUpdated, m, streaming, cancelFunc, now, fpc, upc, umods, lpc, lret,
                   lcause, ctxDone, hand, modChan, mclosed, dpc, dhand, recvd,
                   applied, fed, srv>>
    /\ UNCHANGED auxVars

\* ------------------------------------------------------- the live feed
\* the context that listenForUpdates hands to Feed is done
DerivedDone(l) == ctxDone[l] \/ sessDone[l]

\* a fault: checkStreaming does not look at the streaming flag
checkStreaming_unchecked(l) ==
    /\ streaming' = TRUE
    /\ cancelFunc' = l
    /\ sessDone' = [sessDone EXCEPT ![l] = FALSE]
    /\ lpc' = [lpc EXCEPT ![l] = "dial"]
    /\ dpc' = [dpc EXCEPT ![l] = "select"]
    /\ lret' = [lret EXCEPT ![l] = None]
    /\ lcause' = [lcause EXCEPT ![l] = None]
    /\ mclosed' = [mclosed EXCEPT ![l] = FALSE]
    /\ ev' = Event("listenForUpdates", TRUE, Nil)

\* checkStreaming (client.go 142-151), with the goroutine of ListenForUpdates
\* started just before it
checkStreaming(l) ==
    IF streaming
    THEN /\ lret' = [lret EXCEPT ![l] = "already"]
         /\ lcause' = [lcause EXCEPT ![l] = "already"]
         /\ mclosed' = [mclosed EXCEPT ![l] = TRUE]
         /\ ev' = Event("ListenForUpdates", TRUE, "already")
         /\ UNCHANGED <<streaming, cancelFunc, lpc, dpc, sessDone>>
    ELSE /\ streaming' = TRUE
         /\ cancelFunc' = l
         /\ sessDone' = [sessDone EXCEPT ![l] = FALSE]
         /\ lpc' = [lpc EXCEPT ![l] = "dial"]
         /\ dpc' = [dpc EXCEPT ![l] = "select"]
         /\ lret' = [lret EXCEPT ![l] = None]
         /\ lcause' = [lcause EXCEPT ![l] = None]
         /\ mclosed' = [mclosed EXCEPT ![l] = FALSE]
         /\ ev' = Event("listenForUpdates", TRUE, Nil)

\* Client.ListenForUpdates up to the call of Feed: a new modChan, the goroutine
\* that drains it, and checkStreaming under the mutex
ListenForUpdates(l) ==
    /\ ~crashed
    /\ lpc[l] = "idle"
    /\ dpc[l] = "off"
    /\ m = None
    /\ modChan' = [modChan EXCEPT ![l] = <<>>]
    /\ ctxDone' = [ctxDone EXCEPT ![l] = FALSE]
    /\ recvd' = [recvd EXCEPT ![l] = <<>>]
    /\ applied' = [applied EXCEPT ![l] = <<>>]
    /\ checkStreaming(l)
    /\ UNCHANGED <<domains, lastUpdated, m, updateChan, chans, now, crashed, fpc,
                   upc, umods, hand, dhand, fed, srv>>
    /\ UNCHANGED auxVars

\* the caller cancels the ctx it gave to ListenForUpdates
CancelCtx(l) ==
    /\ ~crashed
    /\ lpc[l] # "idle" \/ dpc[l] # "off"
    /\ ~ctxDone[l]
    /\ ctxDone' = [ctxDone EXCEPT ![l] = TRUE]
    /\ UNCHANGED <<cacheVars, lpc, lret, lcause, sessDone, hand, modChan, mclosed,
                   dpc, dhand, recvd, applied, fed, srv>>
    /\ UNCHANGED auxVars

\* RawClient.Feed, lines 181-190: websocket.Dial; any error is returned as it is
FeedDial(l) ==
    /\ ~crashed
    /\ lpc[l] = "dial"
    /\ IF DerivedDone(l)
       THEN /\ lpc' = [lpc EXCEPT ![l] = "end"]
            /\ lret' = [lret EXCEPT ![l] = "ctxerr"]
            /\ lcause' = [lcause EXCEPT ![l] = "cancel"]
       ELSE \/ /\ lpc' = [lpc EXCEPT ![l] = "read"]
               /\ UNCHANGED <<lret, lcause>>
            \/ /\ lpc' = [lpc EXCEPT ![l] = "end"]
               /\ lret' = [lret EXCEPT ![l] = "dialerr"]
               /\ lcause' = [lcause EXCEPT ![l] = "dial"]
    /\ UNCHANGED <<cacheVars, ctxDone, sessDone, hand, modChan, mclosed, dpc, dhand,
                   recvd, applied, fed, srv>>
    /\ UNCHANGED auxVars

\* RawClient.Feed, lines 203-210: wsjson.Read returns a record, or an error that
\* is the context's (nil is returned) or another one (it is returned)
FeedRead(l) ==
    /\ ~crashed
    /\ lpc[l] = "read"
    /\ IF DerivedDone(l)
       THEN /\ lpc' = [lpc EXCEPT ![l] = "end"]
            /\ lret' = [lret EXCEPT ![l] = Nil]
            /\ lcause' = [lcause EXCEPT ![l] = "cancel"]
            /\ UNCHANGED <<hand, recvd, fed>>
       ELSE \/ /\ fed < srv.limit
               /\ \E mod \in srv.mods :
                     hand' = [hand EXCEPT ![l] = <<[id |-> fed + 1, mod |-> mod]>>]
               /\ recvd' = [recvd EXCEPT ![l] = Append(@, fed + 1)]
               /\ fed' = fed + 1
               /\ lpc' = [lpc EXCEPT ![l] = "send"]
               /\ UNCHANGED <<lret, lcause>>
            \/ /\ lpc' = [lpc EXCEPT ![l] = "end"]
               /\ lret' = [lret EXCEPT ![l] = "streamerr"]
               /\ lcause' = [lcause EXCEPT ![l] = "stream"]
               /\ UNCHANGED <<hand, recvd, fed>>
    /\ UNCHANGED <<cacheVars, ctxDone, sessDone, modChan, mclosed, dpc, dhand,
                   applied, srv>>
    /\ UNCHANGED auxVars

\* the capacity of the channel Feed was given: ListenForUpdates makes it with 8,
\* AutoSync with 2
Cap(l) == IF l = AutoSession THEN AutoCap ELSE QueueCap

\* RawClient.Feed, line 211: modFeed <- mod, which waits while the channel is full
FeedSend(l) ==
    /\ ~crashed
    /\ lpc[l] = "send"
    /\ Len(modChan[l]) < Cap(l)
    /\ modChan' = [modChan EXCEPT ![l] = Append(@, hand[l][1])]
    /\ hand' = [hand EXCEPT ![l] = <<>>]
    /\ lpc' = [lpc EXCEPT ![l] = "read"]
    /\ UNCHANGED <<cacheVars, lret, lcause, ctxDone, sessDone, mclosed, dpc, dhand,
                   recvd, applied, fed, srv>>
    /\ UNCHANGED auxVars

\* the deferred function of listenForUpdates (client.go 156-164), then the
\* deferred close(modChan) of ListenForUpdates, then the return
ListenReturn(l) ==
    /\ ~crashed
    /\ lpc[l] = "end"
    /\ m = None
    /\ streaming' = FALSE
    /\ sessDone' = IF cancelFunc # Nil
                   THEN [sessDone EXCEPT ![cancelFunc] = TRUE]
                   ELSE sessDone
    /\ cancelFunc' = Nil
    /\ mclosed' = [mclosed EXCEPT ![l] = TRUE]
    /\ lpc' = [lpc EXCEPT ![l] = "idle"]
    /\ ev' = Event("ListenForUpdates", TRUE, lret[l])
    /\ UNCHANGED <<domains, lastUpdated, m, updateChan, chans, now, crashed, fpc,
                   upc, umods, lret, lcause, ctxDone, hand, modChan, dpc, dhand, recvd,
                   applied, fed, srv>>
    /\ UNCHANGED auxVars

\* the goroutine of ListenForUpdates, lines 116-122: the select takes a mod
DrainTake(l) ==
    /\ ~crashed
    /\ dpc[l] = "select"
    /\ modChan[l] # <<>>
    /\ dhand' = [dhand EXCEPT ![l] = <<Head(modChan[l])>>]
    /\ modChan' = [modChan EXCEPT ![l] = Tail(@)]
    /\ dpc' = [dpc EXCEPT ![l] = "apply"]
    /\ UNCHANGED <<cacheVars, lpc, lret, lcause, ctxDone, sessDone, hand, mclosed,
                   recvd, applied, fed, srv>>
    /\ UNCHANGED auxVars

\* the goroutine of ListenForUpdates: ctx.Done() is chosen, or modChan is closed
\* and empty
DrainExit(l) ==
    /\ ~crashed
    /\ dpc[l] = "select"
    /\ ctxDone[l] \/ (mclosed[l] /\ modChan[l] = <<>>)
    /\ dpc' = [dpc EXCEPT ![l] = "off"]
    /\ UNCHANGED <<cacheVars, lpc, lret, lcause, ctxDone, sessDone, hand, modChan,
                   mclosed, dhand, recvd, applied, fed, srv>>
    /\ UNCHANGED auxVars

\* Client.applyLiveUpdates, called by that goroutine with the mod it took
applyLiveUpdates(l) ==
    LET rec == dhand[l][1] IN
    /\ ~crashed
    /\ dpc[l] = "apply"
    /\ m = None
    /\ lastUpdated' = now
    /\ IF ModPanics(domains, rec.mod)
       THEN /\ crashed' = TRUE
            /\ UNCHANGED <<domains, chans, applied>>
            /\ ev' = Event("applyLiveUpdates", TRUE, "panic")
       ELSE /\ domains' = applyMod(domains, rec.mod)
            /\ IF SendPanics(updateChan, chans)
               THEN crashed' = TRUE /\ chans' = chans
               ELSE crashed' = crashed /\ chans' = sendUpdate(updateChan, chans)
            /\ applied' = [applied EXCEPT ![l] = Append(@, rec.id)]
            /\ ev' = Event("applyLiveUpdates", TRUE, Nil)
    /\ dhand' = [dhand EXCEPT ![l] = <<>>]
    /\ dpc' = [dpc EXCEPT ![l] = "select"]
    /\ UNCHANGED <<m, streaming, cancelFunc, updateChan, now, fpc, upc, umods, lpc, lret,
                   lcause, ctxDone, sessDone, hand, modChan, mclosed, recvd, fed, srv>>
    /\ UNCHANGED auxVars

\* ------------------------------------------------------ specifications
InitSess(limit, mods, maxList, maxMods) ==
    /\ lpc = [l \in Sessions |-> "idle"]
    /\ lret = [l \in Sessions |-> None]
    /\ lcause = [l \in Sessions |-> None]
    /\ ctxDone = [l \in Sessions |-> FALSE]
    /\ sessDone = [l \in Sessions |-> FALSE]
    /\ hand = [l \in Sessions |-> <<>>]
    /\ modChan = [l \in Sessions |-> <<>>]
    /\ mclosed = [l \in Sessions |-> TRUE]
    /\ dpc = [l \in Sessions |-> "off"]
    /\ dhand = [l \in Sessions |-> <<>>]
    /\ recvd = [l \in Sessions |-> <<>>]
    /\ applied = [l \in Sessions |-> <<>>]
    /\ fed = 0
    /\ srv = [limit |-> limit, mods |-> mods, maxList |-> maxList, maxMods |-> maxMods]

\* no task has called UpdateChannel, SaveOnChange or AutoSync, the writer is
\* empty, no function is called on its own
InitSub == sub = [s \in Subs |-> [pc |-> "idle", ch |-> 0]]

\* the writer before WriteCacheInto is called on it: whether it is an io.Seeker,
\* its bytes, where the call is (wpc), the offset of the next Write (pos), the
\* LastUpdated that MarshalJSON has read (t), the bytes MarshalJSON returned
\* (out), and how many saves were written (n)
NoFile(seeker) ==
    [seeker |-> seeker, bytes |-> <<>>, wpc |-> "idle", pos |-> 0, t |-> 0,
     out |-> <<>>, n |-> 0]

InitFile == file = NoFile(TRUE)

InitAuto == auto = NoAuto

InitPure == pin = <<>> /\ pout = <<>>

InitAux == InitSub /\ InitFile /\ InitAuto /\ InitPure

\* the synchronous operations of one Client, with no live feed running
Init == InitCache /\ InitSess(MaxStream, DomainUpdate, MaxList, MaxShort) /\ InitAux

Next ==
    \/ Tick
    \/ \E d \in Dom : Check(d)
    \/ FullSyncCall
    \/ FullSyncReturn
    \/ UpdateCall
    \/ UpdateAfter
    \/ UpdateReturn
    \/ UpdateChannel
    \/ \E data \in SaveData(srv.maxList) : ReadCacheFrom(data)
    \/ \E data \in SaveData(srv.maxList) : UnmarshalJSON(data)
    \/ Close

Spec == Init /\ [][Next]_vars

\* two callers of ListenForUpdates, with Close and UpdateChannel beside them
NextLive ==
    \/ UpdateChannel
    \/ Close
    \/ \E l \in Listeners : ListenForUpdates(l)
    \/ \E l \in Listeners : CancelCtx(l)
    \/ \E l \in Listeners : FeedDial(l)
    \/ \E l \in Listeners : FeedRead(l)
    \/ \E l \in Listeners : FeedSend(l)
    \/ \E l \in Listeners : ListenReturn(l)
    \/ \E l \in Listeners : DrainTake(l)
    \/ \E l \in Listeners : DrainExit(l)
    \/ \E l \in Listeners : applyLiveUpdates(l)

InitLive == InitCache /\ InitSess(MaxStream, {[Add |-> TRUE, Domains |-> <<"a">>]}, MaxList, MaxMods) /\ InitAux

SpecLive == InitLive /\ [][NextLive]_vars

\* FullSync alone, with a reader and the update channel
NextFull ==
    \/ Tick
    \/ \E d \in Dom : Check(d)
    \/ FullSyncCall
    \/ FullSyncReturn
    \/ UpdateChannel
    \/ Close

SpecFull == Init /\ [][NextFull]_vars

\* Update alone, with a reader and the update channel
NextUpdate ==
    \/ Tick
    \/ \E d \in Dom : Check(d)
    \/ UpdateCall
    \/ UpdateAfter
    \/ UpdateReturn
    \/ UpdateChannel
    \/ Close

InitUpdate == InitCache /\ InitSess(MaxStream, DomainUpdate, MaxList, MaxMods) /\ InitAux

SpecUpdate == InitUpdate /\ [][NextUpdate]_vars

\* the two sources of updates side by side: Update and one live feed session
NextOrder ==
    \/ UpdateCall
    \/ UpdateAfter
    \/ UpdateReturn
    \/ ListenForUpdates("L1")
    \/ CancelCtx("L1")
    \/ FeedDial("L1")
    \/ FeedRead("L1")
    \/ FeedSend("L1")
    \/ ListenReturn("L1")
    \/ DrainTake("L1")
    \/ DrainExit("L1")
    \/ applyLiveUpdates("L1")

InitOrder ==
    InitCache /\ InitSess(MaxStream, {[Add |-> TRUE, Domains |-> <<"a">>]}, MaxList, MaxMods) /\ InitAux

SpecOrder == InitOrder /\ [][NextOrder]_vars

\* every operation that writes lastUpdated, with the clock running; the server's
\* lists are empty, the timestamps are what varies
InitTime ==
    InitCache /\ InitSess(MaxShort, {[Add |-> TRUE, Domains |-> <<"a">>]}, 0, 0) /\ InitAux

NextTime ==
    \/ Tick
    \/ FullSyncCall
    \/ FullSyncReturn
    \/ UpdateCall
    \/ UpdateAfter
    \/ UpdateReturn
    \/ \E data \in SaveData(srv.maxList) : ReadCacheFrom(data)
    \/ \E data \in SaveData(srv.maxList) : UnmarshalJSON(data)
    \/ Close
    \/ ListenForUpdates("L1")
    \/ FeedDial("L1")
    \/ FeedRead("L1")
    \/ FeedSend("L1")
    \/ ListenReturn("L1")
    \/ DrainTake("L1")
    \/ DrainExit("L1")
    \/ applyLiveUpdates("L1")

SpecTime == InitTime /\ [][NextTime]_vars

\* one live feed session whose server sends enough records to fill modChan;
\* every task that can take a step takes it in the end, and a wsjson.Read whose
\* context is done returns
InitFill ==
    InitCache /\ InitSess(MaxFill, {[Add |-> TRUE, Domains |-> <<"a">>]}, MaxList, MaxMods) /\ InitAux

NextFill ==
    \/ ListenForUpdates("L1")
    \/ CancelCtx("L1")
    \/ FeedDial("L1")
    \/ FeedRead("L1")
    \/ FeedSend("L1")
    \/ ListenReturn("L1")
    \/ DrainTake("L1")
    \/ DrainExit("L1")
    \/ applyLiveUpdates("L1")

SpecFill ==
    /\ InitFill
    /\ [][NextFill]_vars
    /\ WF_vars(FeedDial("L1"))
    /\ WF_vars(FeedRead("L1") /\ DerivedDone("L1"))
    /\ WF_vars(FeedSend("L1"))
    /\ WF_vars(ListenReturn("L1"))
    /\ WF_vars(DrainTake("L1") \/ DrainExit("L1"))
    /\ WF_vars(applyLiveUpdates("L1"))

\* ------------------------------------------------------------- claims
ActiveSessions == {l \in Listeners : lpc[l] # "idle"}

RejectedWhileActive(l) ==
    (streaming /\ ListenForUpdates(l)) =>
        /\ lret'[l] = "already"
        /\ lpc'[l] = "idle"
        /\ UNCHANGED <<streaming, cancelFunc, domains, lastUpdated, sessDone, chans>>
        /\ \A o \in Listeners \ {l} :
              /\ lpc'[o] = lpc[o]
              /\ ctxDone'[o] = ctxDone[o]
              /\ modChan'[o] = modChan[o]
              /\ mclosed'[o] = mclosed[o]
              /\ dpc'[o] = dpc[o]

\* C1: at most one live feed session is active at any time, the streaming flag is
\* set exactly while one is, and cancelFunc is then that session's; a call of
\* ListenForUpdates made while a session is active returns "already listening" at
\* once and leaves streaming, cancelFunc, domains, lastUpdated and the running
\* session as they were.
C1_SingleFlight ==
    /\ [](/\ Cardinality(ActiveSessions) <= 1
          /\ streaming <=> (ActiveSessions # {})
          /\ streaming => cancelFunc \in ActiveSessions)
    /\ [][\A l \in Listeners : RejectedWhileActive(l)]_vars

\* a second call was rejected while the first session is reading its stream
C1_Witness ==
    \E l \in Listeners : \E o \in Listeners \ {l} :
        /\ lpc[l] = "read"
        /\ streaming
        /\ cancelFunc = l
        /\ lret[o] = "already"
        /\ ev = Event("ListenForUpdates", TRUE, "already")

\* C2: every operation reads and writes domains, lastUpdated, streaming,
\* cancelFunc and updateChan only while its task holds the mutex.
C2_LockDiscipline == ev.guarded

\* C3: while FullSync waits for RawClient.All, or Update for RawClient.After, the
\* waiting task does not hold the mutex.
C3_TransportOutsideLock ==
    /\ fpc = "all" => m # "fs"
    /\ upc = "after" => m # "up"

\* C4: once ctx is cancelled while a session reads its stream or hands a record
\* to modChan, ListenForUpdates returns nil in the end, with streaming cleared.
C4_CancelTerminates ==
    (ctxDone["L1"] /\ lpc["L1"] \in {"read", "send"})
        ~> (lpc["L1"] = "idle" /\ lret["L1"] = Nil /\ ~streaming)

\* C5: when a started session returns, streaming is false and cancelFunc is nil,
\* and the value returned is nil exactly when a cancellation made Feed return.
C5_SessionEnd ==
    [][\A l \in Listeners :
          ListenReturn(l) =>
              /\ streaming' = FALSE
              /\ cancelFunc' = Nil
              /\ (ev'.ret = Nil) <=> (lcause[l] = "cancel")]_vars

\* C6 as claimed: no step moves lastUpdated to an earlier value.
C6_Monotonic == [][lastUpdated' >= lastUpdated]_vars

\* C6 as amended: while lastUpdated is not ahead of the clock, only ReadCacheFrom
\* and UnmarshalJSON, which write the timestamp of the loaded save, move
\* lastUpdated to an earlier value; FullSync, Update, applyLiveUpdates and Close
\* never do.
C6_MonotonicButLoad ==
    [][(lastUpdated' < lastUpdated) =>
          \/ ev'.op \in {"ReadCacheFrom", "UnmarshalJSON"}
          \/ lastUpdated > now]_vars

\* a synchronization has moved lastUpdated forward to the clock
C6_Witness ==
    /\ ev.op \in {"FullSync", "Update", "applyLiveUpdates"}
    /\ ev.ret = Nil
    /\ now >= 2
    /\ lastUpdated = now

\* the membership after the batches of mods, stated per domain: the last batch
\* that names the domain decides, and a domain no batch names stays as it was
LastBatchWins(ds, mods) ==
    {d \in Dom :
        LET idx == {i \in DOMAIN mods : d \in Elems(mods[i].Domains)}
        IN  IF idx = {} THEN d \in ds
            ELSE mods[CHOOSE i \in idx : \A j \in idx : j <= i].Add}

IsPrefix(s, t) == Len(s) <= Len(t) /\ \A i \in DOMAIN s : s[i] = t[i]

\* C7: Update applies the mods it received in the order received, in one hold of
\* the mutex; a live feed session applies the records its stream delivered in
\* the order delivered, one record at each hold of the mutex.
C7_ReceiptOrder ==
    /\ [](\A l \in Listeners : IsPrefix(applied[l], recvd[l]))
    /\ [][\A l \in Listeners :
             applied'[l] # applied[l] =>
                 \/ applied'[l] = <<>>
                 \/ /\ Len(applied'[l]) = Len(applied[l]) + 1
                    /\ m = None /\ m' = None]_vars
    /\ [][(upc = "ret" /\ UpdateApply) =>
             /\ m = "up" /\ m' = None
             /\ domains' = LastBatchWins(domains, umods.mods)]_vars

\* the session has applied its two records in order, and an Update whose mods
\* removed "a" after them has succeeded
C7_Witness ==
    /\ Len(applied["L1"]) = 2
    /\ applied["L1"] = recvd["L1"]
    /\ ev = Event("Update", TRUE, Nil)
    /\ domains = {"b"}

\* C8: after a successful FullSync the membership is exactly the set of the
\* elements of the list RawClient.All returned, whatever it was before.
C8_FullSyncReplaces ==
    [][(fpc = "all" /\ fpc' = "idle") =>
          \A resp \in AllResponses(srv.maxList) :
              FullSyncApply(resp) => domains' = Elems(All(resp).ds)]_vars

\* a FullSync has just replaced the cache by the single domain "b"
C8_Witness ==
    /\ ev = Event("FullSync", TRUE, Nil)
    /\ domains = {"b"}
    /\ lastUpdated = now

FailedResponse(resp) == resp.kind = "connerr" \/ resp.status # 200 \/ ~resp.valid

\* C9: when RawClient.All fails (no connection, a status other than 200, a body
\* that does not decode), FullSync returns that error and leaves domains,
\* lastUpdated and the update channel as they were.
C9_FullSyncFailure ==
    [][(fpc = "all" /\ fpc' = "idle") =>
          \A resp \in AllResponses(srv.maxList) :
              FailedResponse(resp) =>
                  /\ ~FullSyncApply(resp)
                  /\ FullSyncErr(resp) =>
                        /\ ev'.ret = All(resp).err
                        /\ ev'.ret # Nil
                        /\ UNCHANGED <<domains, lastUpdated, chans, updateChan>>]_vars

\* a FullSync has just failed on a filled cache with an update channel
C9_Witness ==
    /\ ev = Event("FullSync", TRUE, "status")
    /\ domains = {"a"}
    /\ updateChan # 0
    /\ lastUpdated # 0

\* C10: a successful Update sets lastUpdated; with no mods received it leaves
\* every update channel as it is, with mods received it adds exactly one
\* notification to the current channel when that has room.
C10_UpdateNotifies ==
    [][(upc = "ret" /\ UpdateApply /\ ev'.ret = Nil) =>
          /\ lastUpdated' = now
          /\ updateChan' = updateChan
          /\ Len(chans') = Len(chans)
          /\ \A i \in DOMAIN chans :
                /\ chans'[i].closed = chans[i].closed
                /\ chans'[i].buf = chans[i].buf +
                      (IF /\ Len(umods.mods) > 0
                          /\ i = updateChan
                          /\ chans[i].buf < NotifyCap
                       THEN 1 ELSE 0)]_vars

\* an Update that received no mods has succeeded and left the channel empty
C10_Witness ==
    /\ ev = Event("Update", TRUE, Nil)
    /\ updateChan # 0
    /\ chans[updateChan].buf = 0
    /\ now = 2
    /\ lastUpdated = now

\* --------------------------------------------- the update channel's reader
\* a task that holds channel i, as UpdateChannel returned it, receives one
\* notification from it
Receive(i) ==
    /\ ~crashed
    /\ chans[i].buf > 0
    /\ chans' = [chans EXCEPT ![i].buf = @ - 1]
    /\ UNCHANGED <<sessVars, auxVars, domains, lastUpdated, m, streaming, cancelFunc,
                   updateChan, now, crashed, fpc, upc, umods, ev>>

\* the three operations that notify, the update channel and its reader
NextNotify ==
    \/ FullSyncCall
    \/ FullSyncReturn
    \/ UpdateCall
    \/ UpdateAfter
    \/ UpdateReturn
    \/ UpdateChannel
    \/ \E i \in DOMAIN chans : Receive(i)
    \/ ListenForUpdates("L1")
    \/ FeedDial("L1")
    \/ FeedRead("L1")
    \/ FeedSend("L1")
    \/ ListenReturn("L1")
    \/ DrainTake("L1")
    \/ DrainExit("L1")
    \/ applyLiveUpdates("L1")

\* the server has records for the live feed, or domains for /all, or mods for
\* /recent; the other two answer with empty lists or errors
InitNotify ==
    /\ InitCache
    /\ InitAux
    /\ \/ InitSess(MaxShort, {[Add |-> TRUE, Domains |-> <<"a">>]}, 0, 0)
       \/ InitSess(0, {[Add |-> TRUE, Domains |-> <<"a">>]}, MaxShort, 0)
       \/ InitSess(0, {[Add |-> TRUE, Domains |-> <<"a">>]}, 0, MaxShort)

SpecNotify == InitNotify /\ [][NextNotify]_vars

\* the current update channel holds NotifyCap notifications
QueueFull == updateChan # 0 /\ chans[updateChan].buf = NotifyCap

AutoConfigs == [realtime : BOOLEAN, recent : BOOLEAN, full : BOOLEAN]

\* FullSync, lines 80-86, as AutoSync calls it: the cache is replaced and the
\* update is sent
SyncApply(resp) ==
    /\ lastUpdated' = now
    /\ domains' = toMap({}, All(resp).ds)
    /\ IF SendPanics(updateChan, chans)
       THEN crashed' = TRUE /\ chans' = chans
       ELSE crashed' = crashed /\ chans' = sendUpdate(updateChan, chans)

\* AutoSync, lines 71-80: stream is declared and left nil, modChan is made, the
\* goroutine is started when realtime is set, FullSync is called
AutoSync(cfg) ==
    /\ ~crashed
    /\ auto.pc = "off"
    /\ auto' = [NoAuto EXCEPT !.pc = "fs0", !.realtime = cfg.realtime,
                              !.recent = cfg.recent, !.full = cfg.full,
                              !.gpc = IF cfg.realtime THEN "start" ELSE "off"]
    /\ modChan' = [modChan EXCEPT ![AutoSession] = <<>>]
    /\ mclosed' = [mclosed EXCEPT ![AutoSession] = FALSE]
    /\ ctxDone' = [ctxDone EXCEPT ![AutoSession] = FALSE]
    /\ recvd' = [recvd EXCEPT ![AutoSession] = <<>>]
    /\ applied' = [applied EXCEPT ![AutoSession] = <<>>]
    /\ UNCHANGED <<cacheVars, lpc, lret, lcause, sessDone, hand, dpc, dhand, fed, srv,
                   sub, file, pin, pout>>

\* the caller of AutoSync cancels ctx
AutoCancel ==
    /\ ~crashed
    /\ auto.pc # "off"
    /\ ~ctxDone[AutoSession]
    /\ ctxDone' = [ctxDone EXCEPT ![AutoSession] = TRUE]
    /\ UNCHANGED <<cacheVars, auxVars, lpc, lret, lcause, sessDone, hand, modChan,
                   mclosed, dpc, dhand, recvd, applied, fed, srv>>

\* the goroutine of AutoSync, line 75: listenForUpdates runs checkStreaming
AutoListen ==
    /\ ~crashed
    /\ auto.gpc = "start"
    /\ m = None
    /\ IF streaming
       THEN /\ auto' = [auto EXCEPT !.gpc = "blocked", !.gret = "already"]
            /\ ev' = Event("listenForUpdates", TRUE, "already")
            /\ UNCHANGED <<streaming, cancelFunc, sessDone, lpc, lret, lcause>>
       ELSE /\ streaming' = TRUE
            /\ cancelFunc' = AutoSession
            /\ sessDone' = [sessDone EXCEPT ![AutoSession] = FALSE]
            /\ lpc' = [lpc EXCEPT ![AutoSession] = "dial"]
            /\ lret' = [lret EXCEPT ![AutoSession] = None]
            /\ lcause' = [lcause EXCEPT ![AutoSession] = None]
            /\ auto' = [auto EXCEPT !.gpc = "listen"]
            /\ ev' = Event("listenForUpdates", TRUE, Nil)
    /\ UNCHANGED <<domains, lastUpdated, m, updateChan, chans, now, crashed, fpc,
                   upc, umods, ctxDone, hand, modChan, mclosed, dpc, dhand, recvd,
                   applied, fed, srv, sub, file, pin, pout>>

\* listenForUpdates returns in that goroutine (its deferred function runs), and
\* the goroutine goes to line 75's send on stream: stream is nil, and a send on a
\* nil channel waits for ever
AutoListenReturn ==
    /\ ~crashed
    /\ auto.gpc = "listen"
    /\ lpc[AutoSession] = "end"
    /\ m = None
    /\ streaming' = FALSE
    /\ sessDone' = IF cancelFunc # Nil
                   THEN [sessDone EXCEPT ![cancelFunc] = TRUE]
                   ELSE sessDone
    /\ cancelFunc' = Nil
    /\ lpc' = [lpc EXCEPT ![AutoSession] = "idle"]
    /\ auto' = [auto EXCEPT !.gpc = "blocked", !.gret = lret[AutoSession]]
    /\ ev' = Event("listenForUpdates", TRUE, lret[AutoSession])
    /\ UNCHANGED <<domains, lastUpdated, m, updateChan, chans, now, crashed, fpc,
                   upc, umods, lret, lcause, ctxDone, hand, modChan, mclosed, dpc,
                   dhand, recvd, applied, fed, srv, sub, file, pin, pout>>

\* AutoSync, lines 80-94: the first FullSync returns; its error is returned, or
\* the tickers are made and the loop is entered
AutoFirstSync ==
    /\ ~crashed
    /\ auto.pc = "fs0"
    /\ \E resp \in AllResponses(srv.maxList) :
          IF All(resp).err # Nil
          THEN /\ auto' = [auto EXCEPT !.pc = "done", !.ret = All(resp).err]
               /\ ev' = Event("AutoSync", TRUE, All(resp).err)
               /\ UNCHANGED <<domains, lastUpdated, chans, crashed>>
          ELSE /\ m = None
               /\ SyncApply(resp)
               /\ auto' = [auto EXCEPT !.pc = "loop"]
               /\ ev' = Event("FullSync", TRUE, Nil)
    /\ UNCHANGED <<sessVars, m, streaming, cancelFunc, updateChan, now, fpc, upc, umods,
                   sub, file, pin, pout>>

\* AutoSync is at its select with both tickers made
AutoArmed == auto.pc = "loop" /\ auto.recent /\ auto.full

\* AutoSync, lines 96-107: the select evaluates recentTicker.C and
\* fullSyncTicker.C; a ticker that was not made is a nil pointer, and the
\* evaluation panics
AutoNilTicker ==
    /\ ~crashed
    /\ auto.pc = "loop"
    /\ ~auto.recent \/ ~auto.full
    /\ crashed' = TRUE
    /\ auto' = [auto EXCEPT !.pc = "panic"]
    /\ ev' = Event("AutoSync", TRUE, "panic")
    /\ UNCHANGED <<sessVars, domains, lastUpdated, m, streaming, cancelFunc, updateChan,
                   chans, now, fpc, upc, umods, sub, file, pin, pout>>

\* AutoSync, lines 97-100: a mod is received from modChan
AutoTake ==
    /\ ~crashed
    /\ AutoArmed
    /\ modChan[AutoSession] # <<>>
    /\ auto' = [auto EXCEPT !.pc = "apply", !.hand = <<Head(modChan[AutoSession])>>]
    /\ modChan' = [modChan EXCEPT ![AutoSession] = Tail(@)]
    /\ UNCHANGED <<cacheVars, lpc, lret, lcause, ctxDone, sessDone, hand, mclosed, dpc,
                   dhand, recvd, applied, fed, srv, sub, file, pin, pout>>

\* AutoSync, line 101: applyLiveUpdates with that mod
AutoApply ==
    LET rec == auto.hand[1] IN
    /\ ~crashed
    /\ auto.pc = "apply"
    /\ m = None
    /\ lastUpdated' = now
    /\ IF ModPanics(domains, rec.mod)
       THEN /\ crashed' = TRUE
            /\ UNCHANGED <<domains, chans, applied>>
            /\ ev' = Event("applyLiveUpdates", TRUE, "panic")
       ELSE /\ domains' = applyMod(domains, rec.mod)
            /\ IF SendPanics(updateChan, chans)
               THEN crashed' = TRUE /\ chans' = chans
               ELSE crashed' = crashed /\ chans' = sendUpdate(updateChan, chans)
            /\ applied' = [applied EXCEPT ![AutoSession] = Append(@, rec.id)]
            /\ ev' = Event("applyLiveUpdates", TRUE, Nil)
    /\ auto' = [auto EXCEPT !.pc = "loop", !.hand = <<>>]
    /\ UNCHANGED <<m, streaming, cancelFunc, updateChan, now, fpc, upc, umods, lpc, lret,
                   lcause, ctxDone, sessDone, hand, modChan, mclosed, dpc, dhand, recvd,
                   fed, srv, sub, file, pin, pout>>

\* AutoSync, lines 102-103: recentTicker fires, Update takes the mutex and calls
\* RawClient.After
AutoUpdateCall ==
    /\ ~crashed
    /\ AutoArmed
    /\ m = None
    /\ m' = "auto"
    /\ auto' = [auto EXCEPT !.pc = "update"]
    /\ UNCHANGED <<sessVars, domains, lastUpdated, streaming, cancelFunc, updateChan,
                   chans, now, crashed, fpc, upc, umods, ev, sub, file, pin, pout>>

\* AutoSync, lines 103-106: Update returns; its error is returned
AutoUpdateReturn ==
    /\ ~crashed
    /\ auto.pc = "update"
    /\ \E resp \in RecentResponses(srv.maxMods) :
          LET r == Recent(resp) IN
          IF r.err # Nil
          THEN /\ auto' = [auto EXCEPT !.pc = "done", !.ret = r.err]
               /\ ev' = Event("AutoSync", TRUE, r.err)
               /\ UNCHANGED <<domains, lastUpdated, chans, crashed>>
          ELSE /\ lastUpdated' = now
               /\ IF ModsPanic(domains, r.mods)
                  THEN /\ crashed' = TRUE
                       /\ UNCHANGED <<domains, chans>>
                       /\ ev' = Event("Update", TRUE, "panic")
                  ELSE /\ domains' = applyMods(domains, r.mods)
                       /\ IF Len(r.mods) > 0 /\ SendPanics(updateChan, chans)
                          THEN crashed' = TRUE /\ chans' = chans
                          ELSE /\ crashed' = crashed
                               /\ chans' = notifyAfter(r.mods, updateChan, chans)
                       /\ ev' = Event("Update", TRUE, Nil)
               /\ auto' = [auto EXCEPT !.pc = "loop"]
    /\ m' = None
    /\ UNCHANGED <<sessVars, streaming, cancelFunc, updateChan, now, fpc, upc, umods,
                   sub, file, pin, pout>>

\* AutoSync, lines 107-108: fullSyncTicker fires, FullSync calls RawClient.All
AutoFullSyncCall ==
    /\ ~crashed
    /\ AutoArmed
    /\ auto' = [auto EXCEPT !.pc = "fullsync"]
    /\ UNCHANGED <<cacheVars, sessVars, sub, file, pin, pout>>

\* AutoSync, lines 108-111: FullSync returns; its error is returned
AutoFullSyncReturn ==
    /\ ~crashed
    /\ auto.pc = "fullsync"
    /\ \E resp \in AllResponses(srv.maxList) :
          IF All(resp).err # Nil
          THEN /\ auto' = [auto EXCEPT !.pc = "done", !.ret = All(resp).err]
               /\ ev' = Event("AutoSync", TRUE, All(resp).err)
               /\ UNCHANGED <<domains, lastUpdated, chans, crashed>>
          ELSE /\ m = None
               /\ SyncApply(resp)
               /\ auto' = [auto EXCEPT !.pc = "loop"]
               /\ ev' = Event("FullSync", TRUE, Nil)
    /\ UNCHANGED <<sessVars, m, streaming, cancelFunc, updateChan, now, fpc, upc, umods,
                   sub, file, pin, pout>>

\* AutoSync, lines 116-117: ctx is done, nil is returned
AutoCtxDone ==
    /\ ~crashed
    /\ AutoArmed
    /\ ctxDone[AutoSession]
    /\ auto' = [auto EXCEPT !.pc = "done", !.ret = Nil]
    /\ ev' = Event("AutoSync", TRUE, Nil)
    /\ UNCHANGED <<sessVars, domains, lastUpdated, m, streaming, cancelFunc, updateChan,
                   chans, now, crashed, fpc, upc, umods, sub, file, pin, pout>>

\* the steps of the task that called AutoSync
AutoMain ==
    \/ AutoFirstSync
    \/ AutoNilTicker
    \/ AutoTake
    \/ AutoApply
    \/ AutoUpdateCall
    \/ AutoUpdateReturn
    \/ AutoFullSyncCall
    \/ AutoFullSyncReturn
    \/ AutoCtxDone

\* one call of AutoSync with any arguments; every task that can take a step takes
\* it in the end, the tickers keep firing, a transport call returns, a
\* wsjson.Read whose context is done returns, and the select, which chooses at
\* random among the cases that are ready, chooses ctx.Done() in the end once ctx
\* is cancelled
NextAuto ==
    \/ \E cfg \in AutoConfigs : AutoSync(cfg)
    \/ AutoCancel
    \/ AutoListen
    \/ FeedDial(AutoSession)
    \/ FeedRead(AutoSession)
    \/ FeedSend(AutoSession)
    \/ AutoListenReturn
    \/ AutoFirstSync
    \/ AutoNilTicker
    \/ AutoTake
    \/ AutoApply
    \/ AutoUpdateCall
    \/ AutoUpdateReturn
    \/ AutoFullSyncCall
    \/ AutoFullSyncReturn
    \/ AutoCtxDone

InitAutoSync ==
    InitCache /\ InitSess(MaxStream, {[Add |-> TRUE, Domains |-> <<"a">>]}, MaxShort, MaxShort)
        /\ InitAux

SpecAuto ==
    /\ InitAutoSync
    /\ [][NextAuto]_vars
    /\ WF_vars(AutoMain)
    /\ SF_vars(AutoCtxDone)
    /\ WF_vars(AutoListen)
    /\ WF_vars(AutoListenReturn)
    /\ WF_vars(FeedDial(AutoSession))
    /\ WF_vars(FeedRead(AutoSession) /\ DerivedDone(AutoSession))
    /\ WF_vars(FeedSend(AutoSession))

\* the session that AutoSync started has ended with an error of the dial or of
\* the stream, and AutoSync, called with realtime and both intervals positive,
\* is still running
AutoFeedFailed ==
    /\ auto.realtime /\ auto.recent /\ auto.full
    /\ auto.pc \notin {"off", "done", "panic"}
    /\ auto.gpc = "blocked"
    /\ auto.gret \in {"dialerr", "streamerr"}

\* C13: once the live feed session of an AutoSync called with realtime has ended
\* with an error, AutoSync returns in the end, and what it returns is that error
\* (or the error of an Update or FullSync that failed first, or nil when ctx was
\* cancelled first).
C13_FeedErrorEscalates ==
    AutoFeedFailed ~>
        /\ auto.pc = "done"
        /\ auto.ret \in {auto.gret, Nil, "conn", "status", "decode"}

\* C14: an AutoSync called with recentInterval <= 0 or fullSyncInterval <= 0 does
\* not panic, never calls the operation whose interval is not positive, and
\* returns only nil after ctx was cancelled or the error of an operation.
C14_OptionalTimers ==
    (auto.pc # "off" /\ (~auto.recent \/ ~auto.full)) =>
        /\ auto.pc # "panic"
        /\ auto.pc = "update" => auto.recent
        /\ auto.pc = "fullsync" => auto.full
        /\ auto.pc = "done" =>
              \/ auto.ret = Nil /\ ctxDone[AutoSession]
              \/ auto.ret \in {"conn", "status", "decode"}

\* ------------------------------------------- batches from two sources
\* the two sources of batches: the loop of Update (client.go 99-101) and the
\* goroutine of a live feed session (client.go 123, 136)
Sources == {"Update", "Feed"}

\* the batches that touch only the domains of S
Batches(S) == {u \in DomainUpdate : Elems(u.Domains) \subseteq S}

\* a cache that holds any set of domains, and the batches each source is going
\* to apply (pin); the two sources touch disjoint sets of domains. pout keeps
\* the domains the cache started with, how many batches each source has
\* applied, and the order in which the sources took the mutex.
InitCommute ==
    /\ domains \in SUBSET Dom
    /\ lastUpdated = 0 /\ m = None /\ streaming = FALSE /\ cancelFunc = Nil
    /\ updateChan = 0 /\ chans = <<>> /\ now = 1 /\ crashed = FALSE
    /\ fpc = "idle" /\ upc = "idle" /\ umods = NoMods
    /\ ev = Event("New", TRUE, Nil)
    /\ InitSess(0, DomainUpdate, 0, MaxMods)
    /\ InitSub /\ InitFile /\ InitAuto
    /\ \E S \in SUBSET Dom :
          pin \in [Update : SeqsUpTo(Batches(S), srv.maxMods),
                   Feed : SeqsUpTo(Batches(Dom \ S), srv.maxMods)]
    /\ pout = [start |-> domains, Update |-> 0, Feed |-> 0, order |-> <<>>]

\* one source applies its next batch, holding the mutex from before the batch
\* until after it
ApplyBatch(s) ==
    /\ ~crashed
    /\ m = None
    /\ pout[s] < Len(pin[s])
    /\ domains' = applyMod(domains, pin[s][pout[s] + 1])
    /\ pout' = [pout EXCEPT ![s] = @ + 1, !.order = Append(@, s)]
    /\ ev' = Event("applyMod", TRUE, Nil)
    /\ UNCHANGED <<sessVars, lastUpdated, m, streaming, cancelFunc, updateChan, chans,
                   now, crashed, fpc, upc, umods, sub, file, auto, pin>>

NextCommute == \E s \in Sources : ApplyBatch(s)

SpecCommute == InitCommute /\ [][NextCommute]_vars

\* C15: when two sources apply batches that touch disjoint sets of domains, the
\* membership after any interleaving that keeps each source's own order is the
\* membership after the batches of the one source, then those of the other.
C15_Commutes ==
    domains = applyMods(applyMods(pout.start, SubSeq(pin.Update, 1, pout.Update)),
                        SubSeq(pin.Feed, 1, pout.Feed))

C15_Witness ==
    /\ pout.order = <<"Feed", "Update", "Update", "Feed">>
    /\ pout.start = {"a", "b"}
    /\ pin.Update = <<[Add |-> FALSE, Domains |-> <<"a">>], [Add |-> TRUE, Domains |-> <<"a">>]>>
    /\ pin.Feed[2] = [Add |-> FALSE, Domains |-> <<"b">>]
    /\ domains = {"a"}

\* ------------------------------------------------------- persistence
MaxSaves == 2

\* the orders in which `for d := range c.domains` can visit the map
Orderings(ds) ==
    LET S == ds \ NilMap IN {o \in [1..Cardinality(S) -> S] : Elems(o) = S}

\* json.Marshal(save{LastUpdated, Domains}): the tokens of one JSON object
Marshal(t, list) ==
    <<[k |-> "{", v |-> 0], [k |-> "time", v |-> t]>>
    \o [i \in 1..Len(list) |-> [k |-> "dom", v |-> list[i]]]
    \o <<[k |-> "}", v |-> 0]>>

\* json.Unmarshal(data, &sf): one object and nothing after it, or an error
Unmarshal(b) ==
    IF /\ Len(b) >= 3
       /\ b[1].k = "{"
       /\ b[2].k = "time"
       /\ b[Len(b)].k = "}"
       /\ \A i \in 3..(Len(b) - 1) : b[i].k = "dom"
    THEN [valid |-> TRUE, LastUpdated |-> b[2].v,
          Domains |-> [i \in 1..(Len(b) - 3) |-> b[i + 2].v]]
    ELSE [valid |-> FALSE, LastUpdated |-> 0, Domains |-> <<>>]

\* w.Write(b) at offset pos: the bytes behind the written ones stay
Write(bytes, pos, out) ==
    LET end == IF Len(bytes) > pos + Len(out) THEN Len(bytes) ELSE pos + Len(out) IN
    [i \in 1..end |-> IF i > pos /\ i <= pos + Len(out) THEN out[i - pos] ELSE bytes[i]]

\* WriteCacheInto, lines 32-38, and MarshalJSON, lines 224-227: a Seeker is set
\* to offset 0, the mutex is taken and LastUpdated is read
WriteCacheInto ==
    /\ ~crashed
    /\ file.wpc = "idle"
    /\ file.n < MaxSaves
    /\ m = None
    /\ m' = "save"
    /\ file' = [file EXCEPT !.wpc = "marshal", !.t = lastUpdated,
                            !.pos = IF file.seeker THEN 0 ELSE Len(file.bytes)]
    /\ UNCHANGED <<sessVars, ev, domains, lastUpdated, streaming, cancelFunc, updateChan,
                   chans, now, crashed, fpc, upc, umods, sub, auto, pin, pout>>

\* MarshalJSON, lines 228-233: the domains are read in the order of the map,
\* the save is marshalled, the deferred Unlock runs
MarshalJSON ==
    /\ ~crashed
    /\ file.wpc = "marshal"
    /\ \E o \in Orderings(domains) :
          file' = [file EXCEPT !.wpc = "write", !.out = Marshal(file.t, o)]
    /\ m' = None
    /\ ev' = Event("MarshalJSON", m = "save", Nil)
    /\ UNCHANGED <<sessVars, domains, lastUpdated, streaming, cancelFunc, updateChan,
                   chans, now, crashed, fpc, upc, umods, sub, auto, pin, pout>>

\* WriteCacheInto, lines 43-44: the bytes are written
WriteReturn ==
    /\ ~crashed
    /\ file.wpc = "write"
    /\ file' = [file EXCEPT !.wpc = "idle", !.n = @ + 1,
                            !.bytes = Write(file.bytes, file.pos, file.out)]
    /\ ev' = Event("WriteCacheInto", TRUE, Nil)
    /\ UNCHANGED <<sessVars, domains, lastUpdated, m, streaming, cancelFunc, updateChan,
                   chans, now, crashed, fpc, upc, umods, sub, auto, pin, pout>>

\* ReadCacheFrom on a reader of that writer's bytes, from the first one
ReadFile ==
    /\ file.n > 0
    /\ file.wpc = "idle"
    /\ ReadCacheFrom(Unmarshal(file.bytes))

\* an empty cache and an empty file, which is an io.Seeker
InitSave ==
    /\ InitCache
    /\ InitSess(0, {[Add |-> TRUE, Domains |-> <<"a">>]}, MaxList, 0)
    /\ InitAux

NextSave ==
    \/ Tick
    \/ FullSyncCall
    \/ FullSyncReturn
    \/ WriteCacheInto
    \/ MarshalJSON
    \/ WriteReturn
    \/ ReadFile

SpecSave == InitSave /\ [][NextSave]_vars

\* the writer holds a finished save
Saved == file.n > 0 /\ file.wpc = "idle"

\* C16: the bytes MarshalJSON returns hold the LastUpdated and the domains of
\* one state of the cache; what WriteCacheInto leaves in the writer decodes to
\* that same save; and ReadCacheFrom on it succeeds and sets exactly that
\* membership and that LastUpdated.
C16_RoundTrip ==
    /\ [][(file.wpc = "marshal" /\ file'.wpc = "write") =>
            LET sf == Unmarshal(file'.out) IN
            /\ sf.valid
            /\ sf.LastUpdated = lastUpdated
            /\ toMap({}, sf.Domains) = domains \ NilMap]_vars
    /\ [](Saved => /\ Unmarshal(file.bytes).valid
                   /\ Unmarshal(file.bytes).LastUpdated = Unmarshal(file.out).LastUpdated
                   /\ toMap({}, Unmarshal(file.bytes).Domains)
                        = toMap({}, Unmarshal(file.out).Domains))
    /\ [][(Saved /\ ev'.op = "ReadCacheFrom" /\ ev' # ev) =>
            /\ ev'.ret = Nil
            /\ lastUpdated' = Unmarshal(file.out).LastUpdated
            /\ domains' = toMap({}, Unmarshal(file.out).Domains)]_vars

\* ------------------------------------------------- the window of Update
\* the clock has Res readings a second: lastUpdated and now count whole
\* seconds, pin holds the fraction of lastUpdated (ft) and of the clock (fn)
Res == 2

\* the overlap of Update, in seconds
Overlap == 60

\* the seconds between the zero time.Time (1 January of year 1) and second 0 of
\* the clock, and the largest time.Duration in clock readings; scaled down from
\* some 2025 years and the 2^63 - 1 nanoseconds (some 292 years) of an int64:
\* the largest Duration is the shorter one and no whole number of seconds
Era == 1000
MaxDuration == 500 * Res + 1

\* the time.Time of second s and fraction f, in clock readings since the zero
\* time; second 0 is the zero time, as New leaves lastUpdated
Wall(s, f) == IF s = 0 THEN 0 ELSE (Era + s) * Res + f

\* Time.Sub: t - u, or the largest or smallest Duration when that does not fit
Sub(t, u) ==
    IF t - u > MaxDuration THEN MaxDuration
    ELSE IF t - u < -MaxDuration THEN -MaxDuration
    ELSE t - u

\* a fault: the fraction of a second is cut off
Ceil_truncates(d) == d \div Res

\* math.Ceil(d.Seconds())
Ceil(d) == -((-d) \div Res)

\* RawClient.After: the argument it gives to Recent, when time.Now returns clock
After(after, clock) == Ceil(Sub(clock, after))

\* Client.Update, line 94, and RawClient.After, line 267: the request for
\* /v2/recent/<seconds> is made, with the mutex held
AfterRequest ==
    LET clock == Wall(now, pin.fn) IN
    /\ ~crashed
    /\ upc = "after"
    /\ pout = <<>>
    /\ pout' = <<[seconds |-> After(Wall(lastUpdated, pin.ft) - Overlap * Res, clock),
                  clock |-> clock]>>
    /\ UNCHANGED <<cacheVars, sessVars, sub, file, auto, pin>>

\* one call of Update, after any number of FullSync calls
InitWindow ==
    /\ InitCache
    /\ InitSess(0, {[Add |-> TRUE, Domains |-> <<"a">>]}, MaxShort, 0)
    /\ InitSub /\ InitFile /\ InitAuto
    /\ pin \in [ft : 0..(Res - 1), fn : 0..(Res - 1)]
    /\ pout = <<>>

NextWindow ==
    \/ Tick
    \/ FullSyncCall
    \/ FullSyncReturn
    \/ pout = <<>> /\ UpdateCall
    \/ AfterRequest
    \/ pout # <<>> /\ UpdateAfter
    \/ UpdateReturn

SpecWindow == InitWindow /\ [][NextWindow]_vars

\* Update has made its request and has not yet stored a new lastUpdated
Requested == pout # <<>> /\ upc # "idle"

\* the time between lastUpdated and the clock reading of the request, plus the
\* overlap, in clock readings
Elapsed == pout[1].clock - Wall(lastUpdated, pin.ft) + Overlap * Res

\* C17 (as stated): the window Update asks for is never shorter than the time
\* since lastUpdated plus 60 seconds.
C17_WindowOverlap ==
    (Requested /\ pout[1].clock >= Wall(lastUpdated, pin.ft)) =>
        pout[1].seconds * Res >= Elapsed

\* C17 (amended): when the time since lastUpdated plus 60 seconds fits a
\* time.Duration, the window is that time rounded up to whole seconds; when it
\* does not (lastUpdated is the zero time), the window is the largest Duration
\* rounded up to whole seconds.
C17_WindowOverlapInRange ==
    (Requested /\ pout[1].clock >= Wall(lastUpdated, pin.ft)) =>
        IF Elapsed <= MaxDuration
        THEN /\ pout[1].seconds * Res >= Elapsed
             /\ (pout[1].seconds - 1) * Res < Elapsed
        ELSE /\ lastUpdated = 0
             /\ pout[1].seconds * Res >= MaxDuration
             /\ (pout[1].seconds - 1) * Res < MaxDuration

C17_Witness ==
    /\ Requested
    /\ lastUpdated = 1 /\ pin.ft = 0
    /\ pout[1].clock = Wall(2, 1)
    /\ pout[1].seconds = Overlap + 2

\* ------------------------------------------------------- FuzzyCheck
\* a domain name is a sequence of characters, of at most MaxChars
MaxChars == 5

Chars == {"x", "y", "."}

Strings == SeqsUpTo(Chars, MaxChars)

\* the suffixes of a string, the string itself and the empty one included
Tails(s) == {SubSeq(s, k, Len(s)) : k \in 1..(Len(s) + 1)}

RECURSIVE Split(_)
\* strings.Split(s, "."): the labels between the dots, the empty ones as well;
\* a string with no dot is its own only label
Split(s) ==
    IF \A i \in DOMAIN s : s[i] # "." THEN <<s>>
    ELSE LET k == CHOOSE i \in DOMAIN s : s[i] = "." /\ \A j \in 1..(i - 1) : s[j] # "."
         IN <<SubSeq(s, 1, k - 1)>> \o Split(SubSeq(s, k + 1, Len(s)))

RECURSIVE Join(_)
\* strings.Join(parts, ".")
Join(parts) ==
    IF parts = <<>> THEN <<>>
    ELSE IF Len(parts) = 1 THEN parts[1]
    ELSE parts[1] \o <<".">> \o Join(Tail(parts))

RECURSIVE appendVariants(_, _, _, _)
\* the loop of generateVariants: for i < stop, append the labels from i on
appendVariants(parts, i, stop, variants) ==
    IF i < stop
    THEN appendVariants(parts, i + 1, stop,
                        Append(variants, Join(SubSeq(parts, i + 1, Len(parts)))))
    ELSE variants

\* a fault: the loop runs up to the last label
generateVariants_lastLabel(domain) ==
    appendVariants(Split(domain), 0, Len(Split(domain)), <<>>)

generateVariants(domain) ==
    appendVariants(Split(domain), 0, Len(Split(domain)) - 1, <<>>)

\* FuzzyCheck has not been called
NoFuzzy == [pc |-> "idle", variants |-> <<>>, i |-> 0, ret |-> None]

\* Client.FuzzyCheck, line 45: the variants of the argument (pin) are generated
FuzzyCheck ==
    /\ ~crashed
    /\ pout.pc = "idle"
    /\ pout' = [pout EXCEPT !.pc = "loop", !.variants = generateVariants(pin)]
    /\ UNCHANGED <<cacheVars, sessVars, sub, file, auto, pin>>

\* Client.FuzzyCheck, lines 45-50: Check is called on the next variant, under
\* the mutex, and true is returned on a match; false after the last variant
FuzzyCheckNext ==
    /\ ~crashed
    /\ pout.pc = "loop"
    /\ IF pout.i = Len(pout.variants)
       THEN /\ pout' = [pout EXCEPT !.pc = "done", !.ret = FALSE]
            /\ ev' = Event("FuzzyCheck", TRUE, "false")
       ELSE /\ m = None
            /\ IF pout.variants[pout.i + 1] \in domains
               THEN /\ pout' = [pout EXCEPT !.pc = "done", !.ret = TRUE]
                    /\ ev' = Event("FuzzyCheck", TRUE, "true")
               ELSE /\ pout' = [pout EXCEPT !.i = @ + 1]
                    /\ ev' = Event("Check", TRUE, "false")
    /\ UNCHANGED <<sessVars, domains, lastUpdated, m, streaming, cancelFunc, updateChan,
                   chans, now, crashed, fpc, upc, umods, sub, file, auto, pin>>

\* any domain name is asked for; the cache is empty or holds one of its suffixes
InitFuzzy ==
    /\ pin \in Strings
    /\ domains \in {{}} \cup {{s} : s \in Tails(pin)}
    /\ lastUpdated = 0 /\ m = None /\ streaming = FALSE /\ cancelFunc = Nil
    /\ updateChan = 0 /\ chans = <<>> /\ now = 1 /\ crashed = FALSE
    /\ fpc = "idle" /\ upc = "idle" /\ umods = NoMods
    /\ ev = Event("New", TRUE, Nil)
    /\ InitSess(0, {[Add |-> TRUE, Domains |-> <<"a">>]}, 0, 0)
    /\ InitSub /\ InitFile /\ InitAuto
    /\ pout = NoFuzzy

NextFuzzy == FuzzyCheck \/ FuzzyCheckNext

SpecFuzzy == InitFuzzy /\ [][NextFuzzy]_vars

\* C18: the variants of an input of n labels are the n-1 suffixes that start at
\* a label and hold two labels or more, the longest (the input) first, each of
\* them the input's own characters from that label on; there is none when
\* n <= 1. FuzzyCheck returns true exactly when one of them is in the cache,
\* so false for an input with no dot.
C18_Variants ==
    LET p == Split(pin)
        n == Len(p)
        v == pout.variants
    IN
    /\ pout.pc # "idle" =>
          /\ Len(v) = IF n <= 1 THEN 0 ELSE n - 1
          /\ \A i \in 0..(n - 2) : v[i + 1] = Join(SubSeq(p, i + 1, n))
          /\ n >= 2 => v[1] = pin
          /\ \A i \in DOMAIN v :
                /\ v[i] \in Tails(pin)
                /\ \E j \in DOMAIN v[i] : v[i][j] = "."
                /\ i > 1 => Len(v[i]) < Len(v[i - 1])
    /\ pout.pc = "done" =>
          /\ pout.ret = (\E i \in DOMAIN v : v[i] \in domains)
          /\ (\A j \in DOMAIN pin : pin[j] # ".") => pout.ret = FALSE

C18_Witness ==
    /\ pout.pc = "done"
    /\ pin = <<"x", ".", ".", "y", ".">>
    /\ pout.variants = << <<"x", ".", ".", "y", ".">>, <<".", "y", ".">>, <<"y", ".">> >>
    /\ domains = {<<"y", ".">>}
    /\ pout.ret = TRUE

\* ------------------------------------- UpdateChannel, statement by statement
\* Client.UpdateChannel, line 190: updateChan is read, without the mutex
SubTest(s) ==
    /\ ~crashed
    /\ sub[s].pc = "idle"
    /\ Len(chans) < MaxChans
    /\ sub' = [sub EXCEPT ![s].pc = IF updateChan # 0 THEN "close" ELSE "make"]
    /\ UNCHANGED <<cacheVars, sessVars, file, auto, pin, pout>>

\* line 191: updateChan is read again and closed; closing nil or a closed
\* channel panics
SubClose(s) ==
    /\ ~crashed
    /\ sub[s].pc = "close"
    /\ IF updateChan = 0 \/ chans[updateChan].closed
       THEN /\ crashed' = TRUE
            /\ ev' = Event("UpdateChannel", FALSE, "panic")
            /\ UNCHANGED <<chans, sub>>
       ELSE /\ chans' = [chans EXCEPT ![updateChan].closed = TRUE]
            /\ sub' = [sub EXCEPT ![s].pc = "make"]
            /\ UNCHANGED <<crashed, ev>>
    /\ UNCHANGED <<sessVars, domains, lastUpdated, m, streaming, cancelFunc, updateChan,
                   now, fpc, upc, umods, file, auto, pin, pout>>

\* lines 194-195: a new channel is made, stored and returned
SubMake(s) ==
    /\ ~crashed
    /\ sub[s].pc = "make"
    /\ Len(chans) < MaxChans
    /\ chans' = Append(chans, [buf |-> 0, closed |-> FALSE])
    /\ updateChan' = Len(chans) + 1
    /\ sub' = [sub EXCEPT ![s] = [pc |-> "idle", ch |-> Len(chans) + 1]]
    /\ ev' = Event("UpdateChannel", FALSE, Nil)
    /\ UNCHANGED <<sessVars, domains, lastUpdated, m, streaming, cancelFunc, now, crashed,
                   fpc, upc, umods, file, auto, pin, pout>>

\* tasks that call UpdateChannel while FullSync and Close run
NextRace ==
    \/ \E s \in Subs : SubTest(s)
    \/ \E s \in Subs : SubClose(s)
    \/ \E s \in Subs : SubMake(s)
    \/ FullSyncCall
    \/ FullSyncReturn
    \/ Close

InitRace == InitCache /\ InitSess(0, {[Add |-> TRUE, Domains |-> <<"a">>]}, MaxShort, 0) /\ InitAux

SpecRace == InitRace /\ [][NextRace]_vars

\* C19: no step of FullSync, Update or the live feed sends on an update channel
\* that is closed, and no call of UpdateChannel closes a channel that is closed
\* already.
C19_NoSendOnClosed ==
    /\ [][(fpc' # fpc \/ upc' # upc \/ dpc' # dpc) =>
            ~(crashed' /\ SendPanics(updateChan, chans))]_vars
    /\ [][\A s \in Subs : (sub[s].pc = "close" /\ sub'[s].pc = "close" /\ crashed') =>
                               updateChan = 0]_vars

\* C20: once Close has set domains to nil and cancelled a session, no record of
\* that session is applied to the cache any more and its goroutine does not
\* panic.
C20_CloseSafe ==
    [][\A l \in Listeners :
          (domains = NilMap /\ sessDone[l] /\ ~crashed) =>
             /\ applied'[l] = applied[l]
             /\ ~(crashed' /\ dpc[l] = "apply" /\ dpc'[l] # "apply")]_vars

\* C21: once an AutoSync called with realtime has returned, the session it
\* started ends in the end: streaming is cleared, listenForUpdates has
\* returned, and the goroutine is neither running nor waiting on stream.
C21_NoSessionLeak ==
    (auto.pc = "done" /\ auto.realtime) ~>
        /\ ~streaming
        /\ lpc[AutoSession] = "idle"
        /\ auto.gpc \notin {"start", "listen", "blocked"}

====
